---- MODULE Spec2Model ----
(***************************************************************************)
(* The reStructuredText builder of bin/generate_dmtn.py: the accumulator   *)
(* classes (Paragraph, Directive, Admonition, Figure, BulletListItem,      *)
(* BulletList, Section, ReSTDocument), the add_context scoped-child        *)
(* mechanism, and a caller that opens scopes, writes lines, leaves scopes, *)
(* raises, and returns the document.                                       *)
(*                                                                         *)
(* A text is a sequence of one-character strings.  Python's None and ""    *)
(* are both the empty text where the code only tests truthiness.           *)
(***************************************************************************)
EXTENDS Integers, Sequences, FiniteSets, TLC

\* ------------------------------------------------------------------ bounds

\* Accumulators (the document included) a run of the builder creates.
MaxNodes == 3
\* Lines written into one Paragraph in the builder specification.
MaxLines == 2
\* Accumulators (the document included) in the nesting specification.
MaxChain == 5
\* Accumulators (the root included) in the rendering specifications.
MaxParts == 3
\* Accumulators (the root included) in the list item specification.
MaxItemParts == 3
\* Lines written, over all Paragraphs, in the rendering specifications.
MaxPartLines == 2

\* ------------------------------------------------------------------- texts

NL == "\n"

HEADING_CHARS == <<"#", "=", "-", "^", "\"">>

\* Characters str.strip() and textwrap.indent's predicate treat as blank.
IsSpace(ch) == ch \in {" ", NL}

\* character * n
Repeat(ch, n) == [i \in 1..n |-> ch]

RECURSIVE Concat(_)
Concat(texts) ==
    IF texts = <<>> THEN <<>> ELSE Head(texts) \o Concat(Tail(texts))

RECURSIVE lstrip(_)
lstrip(s) == IF s # <<>> /\ IsSpace(Head(s)) THEN lstrip(Tail(s)) ELSE s

RECURSIVE rstrip(_)
rstrip(s) ==
    IF s # <<>> /\ IsSpace(s[Len(s)]) THEN rstrip(SubSeq(s, 1, Len(s) - 1)) ELSE s

\* str.strip(): leading and trailing whitespace removed.
strip(s) == rstrip(lstrip(s))

\* s[n:]
DropFirst(s, n) == SubSeq(s, n + 1, Len(s))

\* underline without the strip(): the last line keeps its terminator.
underline_unstripped(text, character, overline) ==
    LET line == Repeat(character, Len(text)) \o <<NL>>
    IN  (IF overline THEN line ELSE <<>>) \o text \o <<NL>> \o line

\* underline(text, character, overline=False)
underline(text, character, overline) ==
    LET line == Repeat(character, Len(text)) \o <<NL>>
    IN  strip((IF overline THEN line ELSE <<>>) \o text \o <<NL>> \o line)

\* Index of the first line terminator of s at or after i, 0 when there is none.
RECURSIVE FindNL(_, _)
FindNL(s, i) ==
    IF i > Len(s) THEN 0 ELSE IF s[i] = NL THEN i ELSE FindNL(s, i + 1)

FirstNL(s) == FindNL(s, 1)

\* str.splitlines(True): the lines of s, each with its terminator.
RECURSIVE splitlines(_)
splitlines(s) ==
    IF s = <<>> THEN <<>>
    ELSE LET k == FirstNL(s)
         IN  IF k = 0 THEN <<s>>
             ELSE <<SubSeq(s, 1, k)>> \o splitlines(DropFirst(s, k))

\* indent that prefixes every line, blank ones too.
indent_all(text, prefix) ==
    LET lines == splitlines(text)
    IN  Concat([i \in 1..Len(lines) |-> prefix \o lines[i]])

\* textwrap.indent(text, prefix): prefix added to every line that is not
\* made of whitespace only.
indent(text, prefix) ==
    LET lines == splitlines(text)
    IN  Concat([i \in 1..Len(lines) |->
                  IF strip(lines[i]) # <<>> THEN prefix \o lines[i] ELSE lines[i]])

\* ------------------------------------------------------------------ values

\* An option value: a string or an integer (options={"tocdepth": 1}).
StrVal(s) == [isInt |-> FALSE, n |-> 0, s |-> s]
IntVal(n) == [isInt |-> TRUE, n |-> n, s |-> <<>>]

\* `if value:`
Truthy(v) == IF v.isInt THEN v.n # 0 ELSE v.s # <<>>

Digit(d) == <<"0", "1", "2", "3", "4", "5", "6", "7", "8", "9">>[d + 1]

RECURSIVE Decimal(_)
Decimal(n) == IF n < 10 THEN <<Digit(n)>> ELSE Decimal(n \div 10) \o <<Digit(n % 10)>>

\* f"{value}"
Format(v) == IF v.isInt THEN Decimal(v.n) ELSE v.s

\* ------------------------------------------------------------- constructors

\* One entry of an options mapping; a mapping is a sequence of entries with
\* distinct names, in insertion order.
Option(name, value) == [name |-> name, value |-> value]

\* The arguments a constructor was called with (unused ones are empty).
NoArgs ==
    [title |-> <<>>, subtitle |-> <<>>, anchor |-> <<>>,
     name |-> <<>>, argument |-> <<>>, options |-> <<>>]

\* TextAccumulator.__init__: self._buffer = StringIO()
TextAccumulator_init == <<>>

\* Write at position 0 of the stream: text goes in front.
WriteAtStart(buffer, text) == text \o buffer

\* StringIO.write on a buffer that is never sought: text goes at the end.
Write(buffer, text) == buffer \o text

\* Directive.__init__: one option line.
DirectiveOptionLine(o) ==
    IF Truthy(o.value)
    THEN <<":">> \o o.name \o <<":", " ">> \o Format(o.value) \o <<NL>>
    ELSE <<":">> \o o.name \o <<":", NL>>

\* Directive.__init__(name, argument=None, options={})
Directive_init(name, argument, options) ==
    LET header == name \o <<":", ":", " ">>
                       \o (IF argument # <<>> THEN argument ELSE <<>>) \o <<NL>>
        lines == Concat([i \in 1..Len(options) |-> DirectiveOptionLine(options[i])])
    IN  Write(Write(Write(TextAccumulator_init, header), lines), <<NL>>)

\* Figure.__init__(filename, target=None): the options it hands to Directive.
FigureOptions(target) ==
    IF target # <<>>
    THEN <<Option(<<"t", "a", "r", "g", "e", "t">>, StrVal(target))>>
    ELSE <<>>

FigureName == <<"f", "i", "g", "u", "r", "e">>

\* Section.__init__ indexes HEADING_CHARS[self._level]; past the end it
\* raises IndexError.
HeadingInRange(level) == level + 1 <= Len(HEADING_CHARS)

\* HEADING_CHARS[level], Python's index from 0.
HeadingChar(level) == HEADING_CHARS[level + 1]

\* Section.__init__(level, title, anchor=None)
Section_init(level, title, anchor) ==
    LET target == IF anchor # <<>>
                  THEN <<".", ".", " ", "_">> \o anchor \o <<":", NL, NL>>
                  ELSE <<>>
    IN  Write(Write(TextAccumulator_init, target),
              underline(title, HeadingChar(level), FALSE) \o <<NL, NL>>)

\* ReSTDocument.__init__: one field line.
DocumentOptionLine(o) ==
    <<":">> \o o.name \o <<":">>
        \o (IF Truthy(o.value) THEN <<" ">> \o Format(o.value) ELSE <<>>) \o <<NL>>

\* ReSTDocument.__init__(title=None, subtitle=None, options=None)
ReSTDocument_init(title, subtitle, options) ==
    LET t == IF title # <<>>
             THEN underline(title, HEADING_CHARS[1], TRUE) \o <<NL>> ELSE <<>>
        s == IF subtitle # <<>>
             THEN underline(subtitle, HEADING_CHARS[2], TRUE) \o <<NL>> ELSE <<>>
        lines == Concat([i \in 1..Len(options) |-> DocumentOptionLine(options[i])])
        sep == IF title # <<>> \/ subtitle # <<>> \/ options # <<>>
               THEN <<NL>> ELSE <<>>
    IN  Write(Write(Write(Write(TextAccumulator_init, t), s), lines), sep)

\* ------------------------------------------------------------- get_result

\* TextAccumulator.get_result: self._buffer.getvalue()
TextAccumulator_get_result(buffer) == buffer

Paragraph_get_result(buffer) == TextAccumulator_get_result(buffer) \o <<NL>>

\* Directive.get_result without the [2:]: the fence is put in front of the
\* indent instead of into it.
Directive_get_result_unmerged(buffer) ==
    <<".", ".">> \o indent(buffer, <<" ", " ", " ">>) \o <<NL>>

Directive_get_result(buffer) ==
    <<".", ".">> \o DropFirst(indent(buffer, <<" ", " ", " ">>), 2) \o <<NL>>

BulletListItem_get_result(buffer) ==
    LET line_start == <<"-">>
        indented_result == indent(buffer, Repeat(" ", Len(line_start) + 1))
    IN  line_start \o DropFirst(indented_result, Len(line_start))

IsDirective(kind) == kind \in {"Directive", "Admonition", "Figure"}

\* The get_result the class of an accumulator binds.
get_result(kind, buffer) ==
    CASE kind = "Paragraph" -> Paragraph_get_result(buffer)
      [] IsDirective(kind) -> Directive_get_result(buffer)
      [] kind = "BulletListItem" -> BulletListItem_get_result(buffer)
      [] OTHER -> TextAccumulator_get_result(buffer)

\* ------------------------------------------------------------------ state

VARIABLES
    acc,     \* the accumulators created so far, in creation order; each holds
             \*   kind, parent (0: none), level (_level, 0: no such attribute),
             \*   args, buffer (_buffer), status of its scope (root, open, closed,
             \*   aborted), and the record of what happened to its buffer:
             \*   ctor (the buffer __init__ left) and log (the renderings
             \*   new_method wrote into it, with the child each came from)
    pc,      \* the caller: building, raising, failed, returned
    result   \* <<text>> once the caller has returned doc.get_result(), else <<>>

vars == <<acc, pc, result>>

Nodes == 1..Len(acc)

Containers == {c \in Nodes : acc[c].kind # "Paragraph"}

Children(c) == {n \in Nodes : acc[n].parent = c}

OpenScopes == {n \in Nodes : acc[n].status = "open"}

\* The scoped-child methods add_context attaches to each class (Admonition
\* and Figure inherit Directive's).
Contexts(kind) ==
    CASE IsDirective(kind) -> {"paragraph"}
      [] kind = "BulletListItem" -> {"paragraph", "bullet_list"}
      [] kind = "BulletList" -> {"bullet"}
      [] kind = "Section" ->
            {"paragraph", "admonition", "figure", "bullet_list", "directive", "section"}
      [] kind = "ReSTDocument" ->
            {"paragraph", "section", "admonition", "figure", "bullet_list", "directive"}
      [] OTHER -> {}

\* A freshly constructed accumulator.
Accumulator(kind, parent, level, args, buffer, status) ==
    [kind |-> kind, parent |-> parent, level |-> level, args |-> args,
     ctor |-> buffer, buffer |-> buffer, status |-> status, log |-> <<>>]

\* new_method up to its yield: the manager is constructed and handed out.
Enter(c, context, kind, level, args, buffer) ==
    /\ pc = "building"
    /\ context \in Contexts(acc[c].kind)
    /\ acc' = Append(acc, Accumulator(kind, c, level, args, buffer, "open"))
    /\ UNCHANGED <<pc, result>>

\* ChildLevel without the + 1: a subsection repeats its parent's level.
ChildLevelSame(c) == IF acc[c].kind = "Section" THEN acc[c].level ELSE 1

\* level = self._level + 1 if hasattr(self, "_level") else 1
ChildLevel(c) == IF acc[c].kind = "Section" THEN acc[c].level + 1 ELSE 1

paragraph(c) ==
    Enter(c, "paragraph", "Paragraph", 0, NoArgs, TextAccumulator_init)

bullet_list(c) ==
    Enter(c, "bullet_list", "BulletList", 0, NoArgs, TextAccumulator_init)

bullet(c) ==
    Enter(c, "bullet", "BulletListItem", 0, NoArgs, TextAccumulator_init)

DirectiveArgs(name, argument, options) ==
    [NoArgs EXCEPT !.name = name, !.argument = argument, !.options = options]

directive(c, name, argument, options) ==
    Enter(c, "directive", "Directive", 0, DirectiveArgs(name, argument, options),
          Directive_init(name, argument, options))

admonition(c, name, argument, options) ==
    Enter(c, "admonition", "Admonition", 0, DirectiveArgs(name, argument, options),
          Directive_init(name, argument, options))

figure(c, filename, target) ==
    Enter(c, "figure", "Figure", 0,
          DirectiveArgs(FigureName, filename, FigureOptions(target)),
          Directive_init(FigureName, filename, FigureOptions(target)))

SectionArgs(title, anchor) == [NoArgs EXCEPT !.title = title, !.anchor = anchor]

\* section: the level comes from the container, the caller gives title and
\* anchor.
section(c, title, anchor) ==
    /\ HeadingInRange(ChildLevel(c))
    /\ Enter(c, "section", "Section", ChildLevel(c), SectionArgs(title, anchor),
             Section_init(ChildLevel(c), title, anchor))

\* section on a Section of the last heading level: Section.__init__ raises
\* IndexError before new_method yields, in the caller's current scope.
section_too_deep(c) ==
    /\ pc = "building"
    /\ "section" \in Contexts(acc[c].kind)
    /\ ~HeadingInRange(ChildLevel(c))
    /\ pc' = "raising"
    /\ UNCHANGED <<acc, result>>

\* write_line on a Paragraph that shares its parent's buffer: the line lands
\* in the parent too.
write_line_shared(p, line) ==
    /\ pc = "building"
    /\ acc[p].kind = "Paragraph"
    /\ acc' = [acc EXCEPT ![p].buffer = acc[p].buffer \o line \o <<NL>>,
                           ![acc[p].parent].buffer = @ \o line \o <<NL>>]
    /\ UNCHANGED <<pc, result>>

\* Paragraph.write_line, on any Paragraph the caller still holds.
write_line(p, line) ==
    /\ pc = "building"
    /\ acc[p].kind = "Paragraph"
    /\ acc' = [acc EXCEPT ![p].buffer = Write(@, line \o <<NL>>)]
    /\ UNCHANGED <<pc, result>>

\* Exit that skips the write for a child nothing was written into.
ExitSkipEmpty(n) ==
    /\ pc = "building"
    /\ acc[n].status = "open"
    /\ LET c == acc[n].parent
           text == get_result(acc[n].kind, acc[n].buffer)
       IN  acc' = IF acc[n].buffer = <<>>
                  THEN [acc EXCEPT ![n].status = "closed"]
                  ELSE [acc EXCEPT ![n].status = "closed",
                                   ![c].buffer = acc[c].buffer \o text,
                                   ![c].log = Append(@, [child |-> n, text |-> text])]
    /\ UNCHANGED <<pc, result>>

\* new_method after its yield, the with block left without an exception:
\* self._buffer.write(manager.get_result())
Exit(n) ==
    /\ pc = "building"
    /\ acc[n].status = "open"
    /\ LET c == acc[n].parent
           text == get_result(acc[n].kind, acc[n].buffer)
       IN  acc' = [acc EXCEPT ![n].status = "closed",
                              ![c].buffer = Write(@, text),
                              ![c].log = Append(@, [child |-> n, text |-> text])]
    /\ UNCHANGED <<pc, result>>

\* An exception raised in the caller's code (WBS_DEFINITIONS[sub_wbs] with an
\* unknown code, for one).
Raise ==
    /\ pc = "building"
    /\ pc' = "raising"
    /\ UNCHANGED <<acc, result>>

\* The scope an exception leaves next: the one entered last.
Innermost == CHOOSE n \in OpenScopes : \A m \in OpenScopes : m <= n

\* ExitOnError with the write in a finally clause: it runs on an exception.
ExitOnErrorFinally(n) ==
    /\ LET c == acc[n].parent
           text == get_result(acc[n].kind, acc[n].buffer)
       IN  acc' = [acc EXCEPT ![n].status = "aborted",
                              ![c].buffer = acc[c].buffer \o text,
                              ![c].log = Append(@, [child |-> n, text |-> text])]
    /\ UNCHANGED <<pc, result>>

\* new_method with the exception thrown in at its yield: nothing catches it,
\* the write after the yield is not reached.
ExitOnError(n) ==
    /\ acc' = [acc EXCEPT ![n].status = "aborted"]
    /\ UNCHANGED <<pc, result>>

Unwind ==
    /\ pc = "raising"
    /\ OpenScopes # {}
    /\ ExitOnError(Innermost)

\* The exception leaves generate_dmtn: nothing is returned.
Propagate ==
    /\ pc = "raising"
    /\ OpenScopes = {}
    /\ pc' = "failed"
    /\ UNCHANGED <<acc, result>>

\* return doc.get_result(), after every with block.
Return ==
    /\ pc = "building"
    /\ OpenScopes = {}
    /\ result' = <<get_result(acc[1].kind, acc[1].buffer)>>
    /\ pc' = "returned"
    /\ UNCHANGED acc

\* Lines written so far into Paragraph p (no written line holds a terminator).
LineCount(p) ==
    IF acc[p].kind = "Paragraph"
    THEN Cardinality({i \in 1..Len(acc[p].buffer) : acc[p].buffer[i] = NL})
    ELSE 0

RECURSIVE SumLines(_)
SumLines(n) == IF n = 0 THEN 0 ELSE LineCount(n) + SumLines(n - 1)

\* Lines written so far into all Paragraphs.
TotalLines == SumLines(Len(acc))

\* The state after the root accumulator is constructed.
InitRoot(kind, level, args, buffer) ==
    /\ acc = <<Accumulator(kind, 0, level, args, buffer, "root")>>
    /\ pc = "building"
    /\ result = <<>>

\* ------------------------------------------------- the builder specification

Tocdepth == <<"t", "o", "c", "d", "e", "p", "t", "h">>

\* doc = ReSTDocument(options={"tocdepth": 1})
Init ==
    InitRoot("ReSTDocument", 0,
             [NoArgs EXCEPT !.options = <<Option(Tocdepth, IntVal(1))>>],
             ReSTDocument_init(<<>>, <<>>, <<Option(Tocdepth, IntVal(1))>>))

\* What the caller of the builder specification writes.
Titles == {<<"A", "b">>}
Names == {<<"n">>}
Lines == {<<"a">>}

Next ==
    \/ \E c \in Nodes : Len(acc) < MaxNodes /\ paragraph(c)
    \/ \E c \in Nodes : Len(acc) < MaxNodes /\ bullet_list(c)
    \/ \E c \in Nodes : Len(acc) < MaxNodes /\ bullet(c)
    \/ \E c \in Nodes, name \in Names :
          Len(acc) < MaxNodes /\ directive(c, name, <<>>, <<>>)
    \/ \E c \in Nodes, name \in Names :
          Len(acc) < MaxNodes /\ admonition(c, name, <<>>, <<>>)
    \/ \E c \in Nodes, filename \in Names :
          Len(acc) < MaxNodes /\ figure(c, filename, <<>>)
    \/ \E c \in Nodes, title \in Titles :
          Len(acc) < MaxNodes /\ section(c, title, <<>>)
    \/ \E p \in Nodes, line \in Lines : LineCount(p) < MaxLines /\ write_line(p, line)
    \/ \E n \in Nodes : Exit(n)
    \/ Raise
    \/ Unwind
    \/ Propagate
    \/ Return

Spec == Init /\ [][Next]_vars

\* ------------------------------------------------ the nesting specification
\* Sections only, nested to the last heading level and one step past it.

NextSections ==
    \/ \E c \in Nodes, title \in Titles :
          Len(acc) < MaxChain /\ section(c, title, <<>>)
    \/ \E c \in Nodes : section_too_deep(c)
    \/ \E n \in Nodes : Exit(n)
    \/ Unwind
    \/ Propagate
    \/ Return

SpecSections == Init /\ [][NextSections]_vars

\* --------------------------------------------- the rendering specifications
\* One root accumulator of a class, constructed with arguments from small
\* sets, then Paragraphs opened on it, written and closed.

SampleTexts ==
    {<<>>, <<"a">>, <<" ">>, <<"a", "b">>, <<" ", "a">>, <<"a", " ">>,
     <<"R", "e", "p", "o", "r", "t">>}

Note == <<"n", "o", "t", "e">>

BlockOptions ==
    {<<>>, <<Option(<<"o">>, StrVal(<<>>)), Option(<<"p">>, IntVal(10))>>}

SampleOptions ==
    {<<>>,
     <<Option(Tocdepth, IntVal(1))>>,
     <<Option(<<"o">>, StrVal(<<"v">>))>>,
     <<Option(<<"o">>, IntVal(0))>>,
     <<Option(<<"o">>, StrVal(<<>>)), Option(<<"p">>, IntVal(10))>>}

BodyText == <<"B", "o", "d", "y", " ", "t", "e", "x", "t", ".">>

BlockLines == {<<>>, <<" ", " ", " ">>, BodyText}

ItemLines == {<<>>, <<"a">>, <<"b">>, <<" ">>, <<" ", "a">>}

InitDocument ==
    \E title \in SampleTexts, subtitle \in {<<>>, <<"s">>}, options \in SampleOptions :
        InitRoot("ReSTDocument", 0,
                 [NoArgs EXCEPT !.title = title, !.subtitle = subtitle,
                                !.options = options],
                 ReSTDocument_init(title, subtitle, options))

InitSection ==
    \E level \in 1..(Len(HEADING_CHARS) - 1), title \in SampleTexts,
       anchor \in {<<>>, <<"k">>} :
        InitRoot("Section", level, SectionArgs(title, anchor),
                 Section_init(level, title, anchor))

InitBlock ==
    \E kind \in {"Directive", "Admonition"}, name \in {Note},
       argument \in {<<>>, <<"x">>}, options \in BlockOptions :
        InitRoot(kind, 0, DirectiveArgs(name, argument, options),
                 Directive_init(name, argument, options))

InitItem == InitRoot("BulletListItem", 0, NoArgs, TextAccumulator_init)

Hello == <<"H", "e", "l", "l", "o">>

NextHeading ==
    \/ Len(acc) < MaxParts /\ paragraph(1)
    \/ \E p \in Nodes : TotalLines < MaxPartLines /\ write_line(p, Hello)
    \/ \E n \in Nodes : Exit(n)

NextParts ==
    \/ Len(acc) < MaxParts /\ paragraph(1)
    \/ \E p \in Nodes, line \in BlockLines :
          TotalLines < MaxPartLines /\ write_line(p, line)
    \/ \E n \in Nodes : Exit(n)

NextItem ==
    \/ \E c \in Nodes : Len(acc) < MaxItemParts /\ paragraph(c)
    \/ \E c \in Nodes : Len(acc) < MaxItemParts /\ bullet_list(c)
    \/ \E c \in Nodes : Len(acc) < MaxItemParts /\ bullet(c)
    \/ \E p \in Nodes, line \in ItemLines :
          TotalLines < MaxPartLines /\ write_line(p, line)
    \/ \E n \in Nodes : Exit(n)

SpecDocument == InitDocument /\ [][NextHeading]_vars
SpecSection == InitSection /\ [][NextHeading]_vars
SpecBlock == InitBlock /\ [][NextParts]_vars
SpecItem == InitItem /\ [][NextItem]_vars

\* ------------------------------------------------------- reading the state

IsPrefix(s, t) == Len(s) <= Len(t) /\ SubSeq(t, 1, Len(s)) = s

\* The renderings written into container c, in the order they were written.
LogTexts(c) == [i \in 1..Len(acc[c].log) |-> acc[c].log[i].text]

LogChildren(c) == {acc[c].log[i].child : i \in 1..Len(acc[c].log)}

\* What get_result of accumulator n returns now.
Rendered(n) == get_result(acc[n].kind, acc[n].buffer)

\* ------------------------------------------------------------ C1, under Spec

\* C1 as stated: for every container whose child scopes have all ended,
\* however each ended, as many renderings were appended as children acquired.
C1_AppendedHoweverEnded ==
    \A c \in Containers :
        (\A n \in Children(c) : acc[n].status # "open")
            => Len(acc[c].log) = Cardinality(Children(c))

\* C1, amended: the renderings appended to a container are those of its
\* children whose scope ended without an exception, one each, and nothing else
\* was written after construction; a child whose scope an exception ended is
\* not appended.  With every scope ended normally the number appended is the
\* number acquired, whatever was written inside (nothing included).
C1_AppendedOncePerNormalExit ==
    \A c \in Containers :
        /\ LogChildren(c) = {n \in Children(c) : acc[n].status = "closed"}
        /\ Len(acc[c].log) = Cardinality(LogChildren(c))
        /\ acc[c].buffer = acc[c].ctor \o Concat(LogTexts(c))
        /\ (\A n \in Children(c) : acc[n].status = "closed")
              => Len(acc[c].log) = Cardinality(Children(c))

\* Two children of one container closed, one of them with nothing written.
C1_Witness ==
    \E c \in Containers :
        /\ Cardinality(Children(c)) = 2
        /\ \A n \in Children(c) : acc[n].status = "closed"
        /\ \E i, j \in 1..Len(acc[c].log) :
              acc[c].log[i].text = <<NL>> /\ Len(acc[c].log[j].text) > 1

\* ------------------------------------------------------------ C2, under Spec

\* C2 as stated: of two renderings in a container, the one of the child
\* opened first (the smaller index) comes first.
C2_OpenOrder ==
    \A c \in Containers :
        \A i, j \in 1..Len(acc[c].log) :
            acc[c].log[i].child < acc[c].log[j].child => i < j

\* Where the i-th rendering written into c starts.
Offset(c, i) == Len(acc[c].ctor) + Len(Concat(SubSeq(LogTexts(c), 1, i - 1)))

\* C2, amended: children appear in a container's output in the order their
\* scopes closed: a closing child's rendering goes at the end of the buffer,
\* behind every rendering written before, and stays where it was written.  So
\* the child opened first appears first when its scope also closes first (always
\* when the two scopes do not overlap), and second when the other scope is
\* opened and closed while its own is open.
C2_CloseOrder ==
    /\ [](\A c \in Containers :
            \A i \in 1..Len(acc[c].log) :
                SubSeq(acc[c].buffer, Offset(c, i) + 1,
                       Offset(c, i) + Len(acc[c].log[i].text)) = acc[c].log[i].text)
    /\ [][\A n \in Nodes :
            acc[n].status = "open" /\ acc'[n].status = "closed"
                => LET c == acc[n].parent
                   IN  /\ acc'[c].buffer = acc[c].buffer \o Rendered(n)
                       /\ acc'[c].log = Append(acc[c].log,
                                               [child |-> n, text |-> Rendered(n)])]_vars

\* A second child opened on the container while the first was open, and
\* closed first: it stands before the first in the output.
C2_Witness ==
    \E c \in Containers :
        \E i, j \in 1..Len(acc[c].log) :
            /\ i < j
            /\ acc[c].log[i].child > acc[c].log[j].child
            /\ acc[c].log[i].text # acc[c].log[j].text

\* ------------------------------------------------------------ C4, under Spec

\* C4: once an exception is raised nothing is returned; it leaves every open
\* scope, and no container's buffer receives the rendering of a child whose
\* scope it left.
C4_FailFast ==
    /\ pc \in {"raising", "failed"} => result = <<>>
    /\ pc = "failed" => OpenScopes = {}
    /\ pc = "returned" => \A n \in Nodes : acc[n].status # "aborted"
    /\ \A n \in Nodes :
          acc[n].status = "aborted"
              => /\ pc \in {"raising", "failed"}
                 /\ n \notin LogChildren(acc[n].parent)
                 /\ acc[acc[n].parent].buffer =
                       acc[acc[n].parent].ctor \o Concat(LogTexts(acc[n].parent))
                 /\ \A m \in Nodes : m < n /\ acc[m].status = "open" => pc = "raising"

\* The exception has reached the caller from a Paragraph with a line in it,
\* two scopes deep.
C4_Witness ==
    /\ pc = "failed"
    /\ \E n \in Nodes :
          /\ acc[n].status = "aborted"
          /\ acc[n].kind = "Paragraph"
          /\ acc[n].buffer # <<>>
          /\ acc[acc[n].parent].status = "aborted"

\* ----------------------------------------------------------- C10, under Spec

\* C10: a step that changes a container's buffer is the normal exit of a scope
\* opened on that container, it changes no other container's buffer, and the
\* old content is a prefix of the new.  (write_line, scopes of descendants and
\* a child closing after its parent therefore leave the buffer, and the root's
\* output, as they were.)
C10_Frame ==
    [][\A c \in Containers :
          acc'[c].buffer # acc[c].buffer
              => /\ \E n \in Children(c) :
                       acc[n].status = "open" /\ acc'[n].status = "closed"
                 /\ IsPrefix(acc[c].buffer, acc'[c].buffer)
                 /\ \A d \in Containers \ {c} : acc'[d].buffer = acc[d].buffer]_vars

\* A child closed after its parent: the parent's rendering, as its own parent
\* received it, lacks the child.
C10_Witness ==
    \E n \in Nodes :
        /\ acc[n].status = "closed"
        /\ acc[acc[n].parent].status = "closed"
        /\ LET p == acc[n].parent
               g == acc[p].parent
           IN  \E i \in 1..Len(acc[g].log) :
                  /\ acc[g].log[i].child = p
                  /\ acc[g].log[i].text # Rendered(p)
                  /\ n \in LogChildren(p)

\* --------------------------------------------------- C3, under SpecSections

\* The number of Sections on the way from accumulator n up to the Document,
\* n included.
RECURSIVE Depth(_)
Depth(n) ==
    IF acc[n].kind # "Section" THEN 0 ELSE 1 + Depth(acc[n].parent)

\* The heading character of each depth, read off '#=-^"'.
DepthChar(d) ==
    CASE d = 1 -> "=" [] d = 2 -> "-" [] d = 3 -> "^" [] d = 4 -> "\"" [] OTHER -> "?"

\* C3: a Section's level is its nesting depth (1 under the Document, the
\* parent's plus one under a Section), it lies in 1..4, and the heading is the
\* title underlined with the character of that depth.
C3_HeadingDepth ==
    \A n \in Nodes :
        acc[n].kind = "Section"
            => /\ acc[n].level = Depth(n)
               /\ acc[n].level \in 1..4
               /\ acc[acc[n].parent].kind = "ReSTDocument" => acc[n].level = 1
               /\ acc[acc[n].parent].kind = "Section"
                     => acc[n].level = acc[acc[n].parent].level + 1
               /\ acc[n].ctor =
                     acc[n].args.title \o <<NL>>
                        \o Repeat(DepthChar(Depth(n)), Len(acc[n].args.title))
                        \o <<NL, NL>>

\* A chain of four nested Sections, the second underlined with "-".
C3_Witness ==
    \E n, m \in Nodes :
        /\ acc[n].kind = "Section" /\ Depth(n) = 4
        /\ acc[m].kind = "Section" /\ Depth(m) = 2
        /\ acc[m].ctor = <<"A", "b", NL, "-", "-", NL, NL>>

\* --------------------------------------------------- C5, under SpecDocument

\* The text of the sample option values.
ShownValue(v) ==
    CASE v = IntVal(1) -> <<"1">> [] v = IntVal(10) -> <<"1", "0">> [] OTHER -> v.s

FieldLine(o) ==
    IF o.value \in {IntVal(0), StrVal(<<>>)}
    THEN <<":">> \o o.name \o <<":", NL>>
    ELSE <<":">> \o o.name \o <<":", " ">> \o ShownValue(o.value) \o <<NL>>

FieldLines(options) == Concat([i \in 1..Len(options) |-> FieldLine(options[i])])

HasInk(line) == \E i \in 1..Len(line) : ~IsSpace(line[i])

ThreeSpaces == <<" ", " ", " ">>

\* text with every non-blank line indented three spaces.
Indented3(text) ==
    LET lines == splitlines(text)
    IN  Concat([i \in 1..Len(lines) |->
                  IF HasInk(lines[i]) THEN ThreeSpaces \o lines[i] ELSE lines[i]])

\* A Block with no argument and no options that holds one Paragraph.
PlainBlockOfOne ==
    /\ IsDirective(acc[1].kind)
    /\ acc[1].args.argument = <<>>
    /\ acc[1].args.options = <<>>
    /\ Cardinality(Children(1)) = 1
    /\ Len(acc[1].log) = 1

\* C6 as stated: such a Block renders as '.. <name>::', a blank line and the
\* Paragraph's text indented, with nothing after it.
C6_BlockAsStated ==
    PlainBlockOfOne
        => Rendered(1) = <<".", ".", " ">> \o acc[1].args.name \o <<":", ":", NL, NL>>
                            \o Indented3(acc[1].log[1].text)

\* C6, amended: such a Block renders as '.. <name>:: ' (the space before the
\* absent argument is kept), a blank line, the Paragraph's text with every
\* non-blank line indented three spaces, and one more line terminator.
C6_Block ==
    PlainBlockOfOne
        => Rendered(1) =
              <<".", ".", " ">> \o acc[1].args.name \o <<":", ":", " ", NL, NL>>
                 \o Indented3(acc[1].log[1].text) \o <<NL>>

\* The note with the Paragraph "Body text.".
C6_Witness ==
    /\ PlainBlockOfOne
    /\ acc[1].args.name = Note
    /\ acc[1].log[1].text = BodyText \o <<NL, NL>>
    /\ Rendered(1) =
          <<".", ".", " ", "n", "o", "t", "e", ":", ":", " ", NL, NL, " ",
          " ", " ", "B", "o", "d", "y", " ", "t", "e", "x", "t", ".", NL,
          NL, NL>>

\* The lines of Block n's rendering behind the fence, without the header
\* line, the option lines and the separator line.
BodyLines(n) ==
    LET lines == splitlines(DropFirst(Rendered(n), 2))
    IN  SubSeq(lines, Len(acc[n].args.options) + 3, Len(lines))

\* The three-space indent removed from a line that starts with it.
UnindentAll(line) == IF IsPrefix(ThreeSpaces, line) THEN DropFirst(line, 3) ELSE line

\* The three-space indent removed from a line that has content.
UnindentInked(line) == IF HasInk(line) THEN DropFirst(line, 3) ELSE line

\* C7 as stated: fence and indent removed from every line and the header,
\* option and separator lines dropped, a Block's rendering is the
\* concatenation of its children's renderings.
C7_RoundTripAsStated ==
    LET body == BodyLines(1)
    IN  IsDirective(acc[1].kind)
          => Concat([i \in 1..Len(body) |-> UnindentAll(body[i])]) = Concat(LogTexts(1))

\* C7, amended: the rendering starts with the fence; with the fence removed,
\* the header, option and separator lines dropped and the three-space indent
\* removed from every line that has content (each has it; blank and
\* whitespace-only lines carry none and are left as they are), what remains is
\* the concatenation of the children's renderings, in the order they were
\* appended, followed by exactly one more line terminator.
C7_RoundTrip ==
    LET text == Rendered(1)
        body == BodyLines(1)
    IN  IsDirective(acc[1].kind)
          => /\ IsPrefix(<<".", ".">>, text)
             /\ \A i \in 1..Len(body) : HasInk(body[i]) => IsPrefix(ThreeSpaces, body[i])
             /\ Concat([i \in 1..Len(body) |-> UnindentInked(body[i])])
                   = Concat(LogTexts(1)) \o <<NL>>

\* A Block with options and two Paragraphs, one holding a line of three
\* spaces, the other a line with content.
C7_Witness ==
    /\ IsDirective(acc[1].kind)
    /\ acc[1].args.options # <<>>
    /\ Len(acc[1].log) = 2
    /\ \E i, j \in 1..2 :
          /\ acc[1].log[i].text = ThreeSpaces \o <<NL, NL>>
          /\ acc[1].log[j].text = BodyText \o <<NL, NL>>

\* ------------------------------------------------------- C8, under SpecItem

\* C8 as stated: whatever was written into a BulletListItem, its rendering
\* begins with '- ', ends with a line terminator, and every later line that
\* has content starts with two spaces.
C8_ItemFormAsStated ==
    \A n \in Nodes :
        acc[n].kind = "BulletListItem"
            => LET text == Rendered(n)
                   lines == splitlines(text)
               IN  /\ IsPrefix(<<"-", " ">>, text)
                   /\ text[Len(text)] = NL
                   /\ \A i \in 2..Len(lines) :
                         HasInk(lines[i]) => IsPrefix(<<" ", " ">>, lines[i])

\* ---------------------------------------------------- C9, under SpecSection

\* C9 as stated: for every title and every depth in 1..4 a Section's rendering
\* starts, after the anchor target if there is one, with the title unchanged,
\* a line of len(title) heading characters of the depth, and a blank line.
C9_HeadingAsStated ==
    LET r == acc[1]
        target == IF r.args.anchor # <<>>
                  THEN <<".", ".", " ", "_">> \o r.args.anchor \o <<":", NL, NL>>
                  ELSE <<>>
    IN  r.kind = "Section"
          => IsPrefix(target \o r.args.title \o <<NL>>
                         \o Repeat(DepthChar(r.level), Len(r.args.title))
                         \o <<NL, NL>>,
                      Rendered(1))

====
